---- MODULE Spec2Model ----
(***************************************************************************)
(* A model of pyvaheat's Vaheat class (src/pyvaheat.py): the serial        *)
(* command/response engine of the VAHEAT heater controller.                *)
(*                                                                         *)
(* Text on the wire is a sequence of lexical tokens; a JSON value is a     *)
(* function from key paths to scalar tokens.  An API call runs from its    *)
(* entry to its first blocking serial read in one step, and from one       *)
(* blocking read to the next (or to its return) in one step, so that the   *)
(* device can act while the host waits in serial.readline().  The field    *)
(* self.read_raw, a copy of the text last read that only the command-line  *)
(* front end prints, is left out: every read's text is recorded in reads.  *)
(***************************************************************************)
EXTENDS Integers, Sequences, FiniteSets, TLC

VARIABLES
    serial,     \* self.serial: "none" (None), "open", "closed" (is_open False)
    info,       \* self.info: a parsed value, NoneV before the first get_info
    write_raw,  \* self.write_raw: the str last handed to serial.write
    error,      \* self.error: str(d) of the last reply classified as an error
    dev,        \* the device: its alarm state and its streaming mode
    rx,         \* the chunks the device has sent and the host has not read
    pc,         \* "idle", the blocking read the running call waits in, or
                \* "returned": the call has ended and its caller has not gone on
    op,         \* the API method that runs, or ran last
    cfg,        \* its argument
    stage,      \* which of its reads the call waits in
    lines,      \* read_all_lines' accumulator, as the chunks read
    nreads,     \* serial.readline() calls made by the current read loop
    alarm,      \* start_heating's / start_streaming's local variable alarm
    sent,       \* the frames the running (or last) call wrote to the channel,
                \* as the device parses them
    reads,      \* the reads the running (or last) call completed, in order
    ret,        \* what the last call returned or raised
    raw_str,    \* the text _add_commas is called on, when called on its own
    corrected   \* what _add_commas returned

vars == <<serial, info, write_raw, error, dev, rx,
          pc, op, cfg, stage, lines, nreads, alarm, sent, reads, ret,
          raw_str, corrected>>

(***************************************************************************)
(* Bounds of the model.                                                    *)
(***************************************************************************)
\* the chunks read_all_lines' accumulator records; a longer text is kept as
\* text that is no JSON (no reply of the device is that long)
MaxLines == 6
\* the chunks a streaming device queues ahead of the host
MaxRx == 1
\* the unread chunks a frame may be written behind
MaxStale == 2

(***************************************************************************)
(* Tokens and texts.                                                       *)
(***************************************************************************)
\* kinds: "p" punctuation, "w" whitespace, "s" string literal, "n" number,
\* "b" boolean, "z" null, "o" the empty object (in parsed values only),
\* "x" bytes that are no JSON token
Tok(k, s, n) == [k |-> k, s |-> s, n |-> n]
LB == Tok("p", "{", 0)
RB == Tok("p", "}", 0)
CL == Tok("p", ":", 0)
CM == Tok("p", ",", 0)
NL == Tok("w", "\n", 0)
SP == Tok("w", " ", 0)
Str(s) == Tok("s", s, 0)
Num(n) == Tok("n", "", n)
JTrue == Tok("b", "true", 1)
JFalse == Tok("b", "false", 0)
JNull == Tok("z", "null", 0)
EmptyObjTok == Tok("o", "{}", 0)
Junk == Tok("x", "?", 0)
ScalarKinds == {"s", "n", "b", "z"}

\* str.rstrip(): trailing whitespace removed
RECURSIVE RStrip(_)
RStrip(t) ==
    IF t # <<>> /\ t[Len(t)].k = "w" THEN RStrip(SubSeq(t, 1, Len(t) - 1)) ELSE t

\* the text with its whitespace removed, as a JSON scanner skips it
RECURSIVE NoSpace(_)
NoSpace(t) ==
    IF t = <<>> THEN <<>>
    ELSE IF Head(t).k = "w" THEN NoSpace(Tail(t))
    ELSE <<Head(t)>> \o NoSpace(Tail(t))

(***************************************************************************)
(* JSON values: a function from key paths to scalar tokens.  A scalar is   *)
(* the function on the empty path alone, a dict the function on the paths  *)
(* of its leaves, the empty dict the empty function.                       *)
(***************************************************************************)
EmptyDict == <<>>
Scalar(tok) == [p \in {<<>>} |-> tok]
IsScalar(v) == DOMAIN v = {<<>>}
IsDict(v) == <<>> \notin DOMAIN v

\* key in d
Has(d, key) == IsDict(d) /\ \E p \in DOMAIN d : Head(p) = key
\* d[key]
Get(d, key) ==
    [q \in {Tail(p) : p \in {r \in DOMAIN d : Head(r) = key}} |-> d[<<key>> \o q]]
\* the paths of the value v stored under key
Under(key, v) == IF DOMAIN v = {} THEN {<<key>>} ELSE {<<key>> \o q : q \in DOMAIN v}
\* d[key] = v
Put(d, key, v) ==
    [p \in {q \in DOMAIN d : Head(q) # key} \cup Under(key, v) |->
        IF Head(p) # key THEN d[p]
        ELSE IF DOMAIN v = {} THEN EmptyObjTok
        ELSE v[Tail(p)]]
\* the dict {key: tok}
One(key, tok) == Put(EmptyDict, key, Scalar(tok))
\* the keys of a dict
Keys(d) == {Head(p) : p \in DOMAIN d}
\* d[key] of a dict whose values are scalars
Val(d, key) == d[<<key>>]

\* Python's truth value of a parsed value: an empty dict, 0, false, null and
\* the empty string are false
TruthyTok(t) ==
    CASE t.k = "b" -> t.n = 1
      [] t.k = "n" -> t.n # 0
      [] t.k = "s" -> t.s # ""
      [] OTHER -> FALSE
Truthy(v) == IF IsScalar(v) THEN TruthyTok(v[<<>>]) ELSE DOMAIN v # {}

(***************************************************************************)
(* json.loads, for objects of string keys and scalar or object values.     *)
(***************************************************************************)
ParseFail == [ok |-> FALSE, v |-> EmptyDict, rest |-> <<>>]
RECURSIVE ParseValue(_), ParseMembers(_, _), ParseMore(_, _, _)
ParseValue(ts) ==
    IF ts = <<>> THEN ParseFail
    ELSE IF Head(ts) = LB
    THEN IF Len(ts) >= 2 /\ ts[2] = RB
         THEN [ok |-> TRUE, v |-> EmptyDict, rest |-> SubSeq(ts, 3, Len(ts))]
         ELSE ParseMembers(Tail(ts), EmptyDict)
    ELSE IF Head(ts).k \in ScalarKinds
    THEN [ok |-> TRUE, v |-> Scalar(Head(ts)), rest |-> Tail(ts)]
    ELSE ParseFail
ParseMembers(ts, acc) ==
    IF Len(ts) < 3 \/ ts[1].k # "s" \/ ts[2] # CL THEN ParseFail
    ELSE ParseMore(ts[1].s, ParseValue(SubSeq(ts, 3, Len(ts))), acc)
\* after the member key: r, a "}" ends the object and a "," goes on with it
ParseMore(key, r, acc) ==
    IF ~r.ok \/ r.rest = <<>> THEN ParseFail
    ELSE IF Head(r.rest) = RB
    THEN [ok |-> TRUE, v |-> Put(acc, key, r.v), rest |-> Tail(r.rest)]
    ELSE IF Head(r.rest) = CM THEN ParseMembers(Tail(r.rest), Put(acc, key, r.v))
    ELSE ParseFail

\* a parsed value or None
NoneV == [ok |-> FALSE, v |-> EmptyDict]
Some(v) == [ok |-> TRUE, v |-> v]

\* _json2dict: the parsed value, None when json.loads raises JSONDecodeError
Whole(r) == IF r.ok /\ r.rest = <<>> THEN Some(r.v) ELSE NoneV
Json2Dict(text) == Whole(ParseValue(NoSpace(text)))

(***************************************************************************)
(* Building dict arguments and texts.                                      *)
(***************************************************************************)
\* the dict of a sequence of <<key, token>> pairs
RECURSIVE MkDict(_)
MkDict(kvs) ==
    IF kvs = <<>> THEN EmptyDict
    ELSE Put(MkDict(SubSeq(kvs, 1, Len(kvs) - 1)), kvs[Len(kvs)][1],
             Scalar(kvs[Len(kvs)][2]))

\* the texts of a sequence of chunks, joined
RECURSIVE Concat(_)
Concat(cs) == IF cs = <<>> THEN <<>> ELSE Head(cs).txt \o Concat(Tail(cs))

\* str.lower() on the mode strings the model uses
Lower(s) ==
    CASE s = "AUTO" -> "auto"
      [] s = "Direct" -> "direct"
      [] s = "SHOCK" -> "shock"
      [] s = "Profile" -> "profile"
      [] OTHER -> s

(***************************************************************************)
(* The frame codec and the reply classifier.                               *)
(***************************************************************************)
API_CMD ==
    {"get_info", "get_status", "get_settings", "get_streaming", "get_profile",
     "start_heating", "stop_heating", "do_reset", "set_keylock", "set_settings",
     "set_streaming", "set_mode", "set_profile"}

\* json.dumps(v): the text of a value, ", " between the members of an object
\* and ": " after a key.  Python writes the members in the order they were
\* put into the dict; the dicts here have no order and are written in one
\* fixed order, which json.loads does not tell apart.
RECURSIVE Dumps(_), DumpMembers(_, _), DumpFrom(_, _, _)
Dumps(v) ==
    IF IsScalar(v) THEN (IF v[<<>>].k = "o" THEN <<LB, RB>> ELSE <<v[<<>>]>>)
    ELSE <<LB>> \o DumpMembers(v, Keys(v)) \o <<RB>>
DumpMembers(v, ks) ==
    IF ks = {} THEN <<>> ELSE DumpFrom(v, ks, CHOOSE k \in ks : TRUE)
DumpFrom(v, ks, k) ==
    <<Str(k), CL, SP>> \o Dumps(Get(v, k))
    \o (IF ks = {k} THEN <<>> ELSE <<CM, SP>> \o DumpMembers(v, ks \ {k}))

\* a faulty _json_str without the test of cmd against API_CMD
JsonStrAny(cmd, data) ==
    Some(Dumps(Put(EmptyDict, cmd, IF data.ok THEN data.v ELSE Scalar(JTrue))))

\* a faulty _json_str that takes every falsy data for a missing one
JsonStrFalsy(cmd, data) ==
    IF cmd \notin API_CMD THEN NoneV
    ELSE Some(Dumps(Put(EmptyDict, cmd,
                        IF data.ok /\ Truthy(data.v) THEN data.v ELSE Scalar(JTrue))))

\* _json_str(cmd, data): the str json.dumps({cmd: data}), data None sent as
\* true; None for a command outside API_CMD.  data is a value or None.
JsonStr(cmd, data) ==
    IF cmd \notin API_CMD THEN NoneV
    ELSE Some(Dumps(Put(EmptyDict, cmd, IF data.ok THEN data.v ELSE Scalar(JTrue))))

\* the command and the payload of a frame, as the device parses it
FrameCmd(f) == CHOOSE c \in Keys(f) : TRUE
FramePayload(f) == Get(f, FrameCmd(f))

\* a faulty _is_success that takes a missing reply for an accepted command
IsSuccessOfNone(d, err) ==
    IF ~d.ok THEN [r |-> "True", error |-> err]
    ELSE IF ~Truthy(d.v) THEN [r |-> "False", error |-> err]
    ELSE IF IsScalar(d.v) THEN [r |-> "TypeError", error |-> err]
    ELSE IF Has(d.v, "success") /\ ~Truthy(Get(d.v, "success"))
    THEN [r |-> "False", error |-> d]
    ELSE IF Has(d.v, "error") THEN [r |-> "False", error |-> d]
    ELSE [r |-> "True", error |-> err]

\* a faulty _is_success that clears self.error when the command was accepted
IsSuccessClearing(d, err) ==
    IF ~d.ok \/ ~Truthy(d.v) THEN [r |-> "False", error |-> err]
    ELSE IF IsScalar(d.v) THEN [r |-> "TypeError", error |-> err]
    ELSE IF Has(d.v, "success") /\ ~Truthy(Get(d.v, "success"))
    THEN [r |-> "False", error |-> d]
    ELSE IF Has(d.v, "error") THEN [r |-> "False", error |-> d]
    ELSE [r |-> "True", error |-> NoneV]

\* a faulty _is_success without its `if not d` test: None is searched for keys
IsSuccessUnguarded(d, err) ==
    IF ~d.ok \/ IsScalar(d.v) THEN [r |-> "TypeError", error |-> err]
    ELSE IF Has(d.v, "success") /\ ~Truthy(Get(d.v, "success"))
    THEN [r |-> "False", error |-> d]
    ELSE IF Has(d.v, "error") THEN [r |-> "False", error |-> d]
    ELSE [r |-> "True", error |-> err]

\* _is_success(d) with self.error = err: the result and self.error after it
IsSuccess(d, err) ==
    IF ~d.ok \/ ~Truthy(d.v) THEN [r |-> "False", error |-> err]
    ELSE IF IsScalar(d.v) THEN [r |-> "TypeError", error |-> err]
    ELSE IF Has(d.v, "success") /\ ~Truthy(Get(d.v, "success"))
    THEN [r |-> "False", error |-> d]
    ELSE IF Has(d.v, "error") THEN [r |-> "False", error |-> d]
    ELSE [r |-> "True", error |-> err]

(***************************************************************************)
(* _add_commas: the repair of the device's replies that miss commas.       *)
(***************************************************************************)
\* str.split('\n')
RECURSIVE SplitLines(_, _)
SplitLines(t, cur) ==
    IF t = <<>> THEN <<cur>>
    ELSE IF Head(t) = NL THEN <<cur>> \o SplitLines(Tail(t), <<>>)
    ELSE SplitLines(Tail(t), Append(cur, Head(t)))

\* '\n'.join(lines)
RECURSIVE JoinLines(_)
JoinLines(ls) ==
    IF Len(ls) = 0 THEN <<>>
    ELSE IF Len(ls) = 1 THEN ls[1]
    ELSE ls[1] \o <<NL>> \o JoinLines(Tail(ls))

\* re.search(".*[{}:\[\]]$", stripped_line)
EndsStructural(t) ==
    t # <<>> /\ t[Len(t)].k = "p" /\ t[Len(t)].s \in {"{", "}", ":", "[", "]"}

\* one line of the loop: a comma appended to a leaf line that has none
Corrected(line, stripped) ==
    IF stripped # <<>> /\ ~EndsStructural(stripped) /\ stripped[Len(stripped)] # CM
    THEN Append(stripped, CM)
    ELSE line
CorrectLine(line) == Corrected(line, RStrip(line))

\* s[::-1].replace(',', '', 1)[::-1]: the last comma of the text removed
RECURSIVE DropLastComma(_)
DropLastComma(t) ==
    IF t = <<>> THEN <<>>
    ELSE IF t[Len(t)] = CM THEN SubSeq(t, 1, Len(t) - 1)
    ELSE Append(DropLastComma(SubSeq(t, 1, Len(t) - 1)), t[Len(t)])

CorrectLines(ls) == [i \in 1..Len(ls) |-> CorrectLine(ls[i])]
AddCommas(json_string) ==
    DropLastComma(JoinLines(CorrectLines(SplitLines(json_string, <<>>))))

\* int(x) of a number or of a string of digits; -1 stands for ValueError
IntOf(tok) ==
    CASE tok.k = "n" -> tok.n
      [] tok.k = "b" -> tok.n
      [] tok.k = "s" /\ tok.s = "1" -> 1
      [] tok.k = "s" /\ tok.s = "5" -> 5
      [] OTHER -> -1

(***************************************************************************)
(* The API methods.  Each is a function of the method's argument c, the    *)
(* stage st it resumes at ("begin" at its entry), the text its last read   *)
(* returned, its local alarm, and self.info / self.error.  Its value says  *)
(* what the method does up to its next read: it returns or raises (Done),  *)
(* or it writes a frame and reads (Io).                                    *)
(***************************************************************************)
\* a return value: k is "True", "False", "None", "value" (v returned), "text"
\* (a str returned), or the exception raised
Ret(k) == [k |-> k, v |-> EmptyDict]
RetV(v) == [k |-> "value", v |-> v]

Done(r, inf, err, al) ==
    [kind |-> "done", ret |-> r, info |-> inf, error |-> err, alarm |-> al,
     cmd |-> "", data |-> NoneV, read |-> "", next |-> ""]
\* self.write(self._json_str(cmd, data)), then read_all_lines() (read "all")
\* or readline() (read "line"), resuming at stage next
Io(cmd, data, read, next, inf, err, al) ==
    [kind |-> "io", ret |-> Ret("running"), info |-> inf, error |-> err,
     alarm |-> al, cmd |-> cmd, data |-> data, read |-> read, next |-> next]

\* the 'data' of a parsed reply d: _get(cmd)'s value, then ['data']
DataOf(d) ==
    IF ~d.ok \/ ~Truthy(d.v) THEN Ret("None")
    ELSE IF IsScalar(d.v) THEN Ret("TypeError")
    ELSE IF ~Has(d.v, "data") THEN Ret("KeyError")
    ELSE RetV(Get(d.v, "data"))

\* _get(cmd)'s tail and get_status / get_settings: the 'data' of the reply
GetData(text) == DataOf(Json2Dict(text))

\* a faulty get_alarm: a status that cannot be read counts as NO_ALARM
AlarmOfAssumed(status) ==
    IF status.k # "value" \/ ~Truthy(status.v) \/ IsScalar(status.v)
       \/ ~Has(status.v, "alarm")
    THEN RetV(Scalar(Str("NO_ALARM")))
    ELSE RetV(Get(status.v, "alarm"))

\* status['alarm'] of get_status's result, None without a status
AlarmOf(status) ==
    IF status.k # "value" THEN status
    ELSE IF ~Truthy(status.v) THEN Ret("None")
    ELSE IF IsScalar(status.v) THEN Ret("TypeError")
    ELSE IF ~Has(status.v, "alarm") THEN Ret("KeyError")
    ELSE RetV(Get(status.v, "alarm"))

\* get_alarm
GetAlarm(text) == AlarmOf(GetData(text))

NO_ALARM == Scalar(Str("NO_ALARM"))

\* a faulty gate: any alarm the device reports lets the call go on
AlarmClearAny(al) == al.ok /\ Truthy(al.v)

\* the alarm gate of start_heating and start_streaming:
\* not (not alarm or alarm != "NO_ALARM")
AlarmClear(al) == al.ok /\ Truthy(al.v) /\ al.v = NO_ALARM

\* the local variable alarm after alarm = self.get_alarm() gave a
Observed(a) == IF a.k = "value" THEN Some(a.v) ELSE NoneV

\* return self._is_success(...), s its result and self.error after it
Reply(s, inf, al) == Done(Ret(s.r), inf, s.error, al)

\* get_info's tail: self.info = info['data'] when there is a reply
StoreInfo(r, inf, err, al) ==
    IF r.k = "value" THEN Done(r, Some(r.v), err, al)
    ELSE Done(r, inf, err, al)

GetInfo(c, st, text, al, inf, err) ==
    IF st = "begin" THEN Io("get_info", NoneV, "all", "reply", inf, err, al)
    ELSE StoreInfo(GetData(text), inf, err, al)

GetStatus(c, st, text, al, inf, err) ==
    IF st = "begin" THEN Io("get_status", NoneV, "all", "reply", inf, err, al)
    ELSE Done(GetData(text), inf, err, al)

GetSettings(c, st, text, al, inf, err) ==
    IF st = "begin" THEN Io("get_settings", NoneV, "all", "reply", inf, err, al)
    ELSE Done(GetData(text), inf, err, al)

\* response['data']['rate'] = int(response['data']['rate']); return response['data']
StreamingData(data, inf, err, al) ==
    IF IsScalar(data) THEN Done(Ret("TypeError"), inf, err, al)
    ELSE IF ~Has(data, "rate") THEN Done(Ret("KeyError"), inf, err, al)
    ELSE IF ~IsScalar(Get(data, "rate")) \/ Val(data, "rate").k \notin {"n", "s", "b"}
    THEN Done(Ret("TypeError"), inf, err, al)
    ELSE IF IntOf(Val(data, "rate")) < 0 THEN Done(Ret("ValueError"), inf, err, al)
    ELSE Done(RetV(Put(data, "rate", Scalar(Num(IntOf(Val(data, "rate")))))),
              inf, err, al)

\* get_streaming after response = self._json2dict(corrected)
StreamingReply(response, inf, err, al) ==
    IF ~response.ok THEN Done(Ret("None"), inf, err, al)
    ELSE IF IsScalar(response.v) THEN Done(Ret("TypeError"), inf, err, al)
    ELSE IF ~Has(response.v, "data") THEN Done(Ret("KeyError"), inf, err, al)
    ELSE StreamingData(Get(response.v, "data"), inf, err, al)

GetStreaming(c, st, text, al, inf, err) ==
    IF st = "begin" THEN Io("get_streaming", NoneV, "all", "reply", inf, err, al)
    ELSE StreamingReply(Json2Dict(AddCommas(text)), inf, err, al)

\* get_profile after response was parsed
ProfileReply(response, inf, err, al) ==
    IF ~response.ok \/ ~Truthy(response.v) THEN Done(Ret("None"), inf, err, al)
    ELSE IF IsScalar(response.v) THEN Done(Ret("TypeError"), inf, err, al)
    ELSE IF ~Has(response.v, "data") THEN Done(Ret("KeyError"), inf, err, al)
    ELSE Done(RetV(Get(response.v, "data")), inf, err, al)

GetProfile(c, st, text, al, inf, err) ==
    IF st = "begin"
    THEN IF ~Truthy(c) \/ ~Has(c, "profile_number") THEN Done(Ret("None"), inf, err, al)
         ELSE Io("get_profile", Some(c), "all", "reply", inf, err, al)
    ELSE ProfileReply(IF Has(c, "step") THEN Json2Dict(AddCommas(text))
                      ELSE Json2Dict(text), inf, err, al)

\* d[key] = c[key] if key in c
Copy(d, c, key) == IF Has(c, key) THEN Put(d, key, Get(c, key)) ELSE d

\* start_heating's branches on mode.lower() (m), lines 202 to 221, d being
\* {'mode': mode}: the payload (k "value"), or the return (k "False") or the
\* exception that ends the call before it
HeatingFields(c, m, d) ==
    IF m = "auto" THEN RetV(Copy(d, c, "temperature"))
    ELSE IF m = "direct" THEN RetV(Copy(d, c, "power"))
    ELSE IF m = "shock" THEN RetV(Copy(Copy(d, c, "power"), c, "duration"))
    ELSE IF m = "profile"
    THEN IF Has(c, "profile_number")
            /\ (Val(c, "profile_number").n < 1 \/ Val(c, "profile_number").n > 9)
         THEN Ret("False")
         ELSE IF ~Has(c, "ignore_limit_error") THEN Ret("KeyError")
         ELSE RetV(Copy(Copy(d, c, "profile_number"), c, "ignore_limit_error"))
    ELSE RetV(d)

\* d = {'mode': mode}, then the branches on mode.lower()
HeatingMode(c, mode) ==
    IF ~IsScalar(mode) \/ mode[<<>>].k # "s" THEN Ret("AttributeError")
    ELSE HeatingFields(c, Lower(mode[<<>>].s), Put(EmptyDict, "mode", mode))

\* start_heating's payload d, from line 200 to line 221
HeatingPayload(c) ==
    HeatingMode(c, IF Has(c, "mode") THEN Get(c, "mode") ELSE Scalar(Str("auto")))

\* start_heating's last lines: the frame is written and its reply awaited
SendHeating(d, inf, err, alv) ==
    IF d.k # "value" THEN Done(d, inf, err, alv)
    ELSE Io("start_heating", Some(d.v), "all", "reply", inf, err, alv)

\* a faulty start_heating that asks for the status again when it got none
GateHeatingRetry(c, a, al, inf, err) ==
    IF a.k = "None" THEN Io("get_status", NoneV, "all", "alarm", inf, err, al)
    ELSE IF a.k # "value" THEN Done(a, inf, err, al)
    ELSE IF ~AlarmClear(Observed(a)) THEN Done(Ret("False"), inf, err, Observed(a))
    ELSE SendHeating(HeatingPayload(c), inf, err, Observed(a))

\* start_heating after alarm = self.get_alarm() gave a
GateHeating(c, a, al, inf, err) ==
    IF a.k \notin {"value", "None"} THEN Done(a, inf, err, al)
    ELSE IF ~AlarmClear(Observed(a)) THEN Done(Ret("False"), inf, err, Observed(a))
    ELSE SendHeating(HeatingPayload(c), inf, err, Observed(a))

\* a faulty start_heating without its `if not config` test
StartHeatingUnchecked(c, st, text, al, inf, err) ==
    IF st = "begin" THEN Io("get_status", NoneV, "all", "alarm", inf, err, al)
    ELSE IF st = "alarm" THEN GateHeating(c, GetAlarm(text), al, inf, err)
    ELSE Reply(IsSuccess(Json2Dict(text), err), inf, al)

StartHeating(c, st, text, al, inf, err) ==
    IF st = "begin"
    THEN IF ~Truthy(c) THEN Done(Ret("False"), inf, err, al)
         ELSE Io("get_status", NoneV, "all", "alarm", inf, err, al)
    ELSE IF st = "alarm" THEN GateHeating(c, GetAlarm(text), al, inf, err)
    ELSE Reply(IsSuccess(Json2Dict(text), err), inf, al)

StopHeating(c, st, text, al, inf, err) ==
    IF st = "begin" THEN Io("stop_heating", NoneV, "all", "reply", inf, err, al)
    ELSE Reply(IsSuccess(Json2Dict(text), err), inf, al)

\* set_streaming(config), resumed after its readline()
SetStreaming(c, st, text, al, inf, err) ==
    IF st = "begin"
    THEN IF ~Truthy(c) THEN Done(Ret("False"), inf, err, al)
         ELSE Io("set_streaming", Some(c), "line", "reply", inf, err, al)
    ELSE Reply(IsSuccess(Json2Dict(text), err), inf, al)

\* a faulty start_streaming without the test of the alarm
GateStreamingUngated(c, a, text, al, inf, err) ==
    IF a.k \notin {"value", "None"} THEN Done(a, inf, err, al)
    ELSE IF c = Scalar(Str("continuous")) \/ c = Scalar(Str("once"))
    THEN SetStreaming(Put(EmptyDict, "mode", c), "begin", text, Observed(a), inf, err)
    ELSE Done(Ret("False"), inf, err, Observed(a))

\* start_streaming after alarm = self.get_alarm() gave a
GateStreaming(c, a, text, al, inf, err) ==
    IF a.k \notin {"value", "None"} THEN Done(a, inf, err, al)
    ELSE IF ~AlarmClear(Observed(a)) THEN Done(Ret("False"), inf, err, Observed(a))
    ELSE IF c = Scalar(Str("continuous")) \/ c = Scalar(Str("once"))
    THEN SetStreaming(Put(EmptyDict, "mode", c), "begin", text, Observed(a), inf, err)
    ELSE Done(Ret("False"), inf, err, Observed(a))

\* start_streaming(mode); c is the str mode as a scalar
StartStreaming(c, st, text, al, inf, err) ==
    IF st = "begin" THEN Io("get_status", NoneV, "all", "alarm", inf, err, al)
    ELSE IF st = "alarm" THEN GateStreaming(c, GetAlarm(text), text, al, inf, err)
    ELSE SetStreaming(c, st, text, al, inf, err)

StopStreaming(c, st, text, al, inf, err) ==
    SetStreaming(One("mode", Str("off")), st, text, al, inf, err)

\* do_reset's local d, lines 283 to 287 (the key tested is "alL")
ResetD(c) ==
    IF Has(c, "alL") /\ Truthy(Get(c, "all")) THEN One("all", JTrue) ELSE c

\* the payload do_reset hands to _json_str, line 288
ResetPayload(c) == c

DoReset(c, st, text, al, inf, err) ==
    IF st = "begin"
    THEN IF Cardinality(Keys(c)) = 0 THEN Done(Ret("False"), inf, err, al)
         ELSE IF Has(c, "alL") /\ ~Has(c, "all") THEN Done(Ret("KeyError"), inf, err, al)
         ELSE Io("do_reset", Some(ResetPayload(c)), "all", "reply", inf, err, al)
    ELSE Reply(IsSuccess(Json2Dict(text), err), inf, al)

\* set_keylock(keylock); c is the bool as a scalar
SetKeylock(c, st, text, al, inf, err) ==
    IF st = "begin" THEN Io("set_keylock", Some(c), "all", "reply", inf, err, al)
    ELSE Reply(IsSuccess(Json2Dict(text), err), inf, al)

SetSettings(c, st, text, al, inf, err) ==
    IF st = "begin"
    THEN IF ~Truthy(c) THEN Done(Ret("False"), inf, err, al)
         ELSE Io("set_settings", Some(c), "all", "reply", inf, err, al)
    ELSE Reply(IsSuccess(Json2Dict(text), err), inf, al)

\* set_mode's branches on mode (m, lowercased), lines 380 to 395, d being
\* {'mode': mode}
ModeFields(c, m, d) ==
    IF m = "auto" THEN RetV(Copy(d, c, "temperature"))
    ELSE IF m = "direct" THEN RetV(Copy(d, c, "power"))
    ELSE IF m = "shock"
    THEN IF ~Has(c, "duration") THEN Ret("KeyError")
         ELSE RetV(Copy(Copy(d, c, "power"), c, "duration"))
    ELSE IF m = "profile" THEN RetV(Copy(d, c, "profile_number"))
    ELSE Ret("ValueError")

\* set_mode's payload d, from line 375 to line 395
ModePayload(c) ==
    IF ~Has(c, "mode") THEN Ret("ValueError")
    ELSE IF ~IsScalar(Get(c, "mode")) \/ Val(c, "mode").k # "s"
    THEN Ret("AttributeError")
    ELSE ModeFields(c, Lower(Val(c, "mode").s), One("mode", Str(Lower(Val(c, "mode").s))))

\* set_mode's write
SendMode(d, inf, err, al) ==
    IF d.k # "value" THEN Done(d, inf, err, al)
    ELSE Io("set_mode", Some(d.v), "all", "reply", inf, err, al)

\* return response and self._is_success(response)
ModeReply(response, inf, err, al) ==
    IF ~response.ok THEN Done(Ret("None"), inf, err, al)
    ELSE IF ~Truthy(response.v) THEN Done(RetV(response.v), inf, err, al)
    ELSE Reply(IsSuccess(response, err), inf, al)

SetMode(c, st, text, al, inf, err) ==
    IF st = "begin" THEN SendMode(ModePayload(c), inf, err, al)
    ELSE ModeReply(Json2Dict(text), inf, err, al)

SetProfile(c, st, text, al, inf, err) ==
    IF st = "begin"
    THEN IF ~Truthy(c) THEN Done(Ret("None"), inf, err, al)
         ELSE Io("set_profile", Some(c), "all", "reply", inf, err, al)
    ELSE Reply(IsSuccess(Json2Dict(text), err), inf, al)

\* connect()'s self.info = self.get_info()
ConnectInfo(r, inf, err, al) ==
    IF r.k = "value" THEN Done(Ret("True"), Some(r.v), err, al)
    ELSE IF r.k = "None" THEN Done(Ret("True"), NoneV, err, al)
    ELSE Done(r, inf, err, al)

\* connect(), after serial.Serial(...) succeeded: self.info = self.get_info()
Connect(c, st, text, al, inf, err) ==
    IF st = "begin" THEN Io("get_info", NoneV, "all", "reply", inf, err, al)
    ELSE ConnectInfo(GetData(text), inf, err, al)

\* _get(cmd), called with a command name: write() returns False for the None
\* that _json_str gives for a name outside API_CMD, and nothing is read
GetCommand(c, st, text, al, inf, err) ==
    IF st = "begin"
    THEN IF JsonStr(c[<<>>].s, NoneV).ok
         THEN Io(c[<<>>].s, NoneV, "all", "reply", inf, err, al)
         ELSE Done(Ret("None"), inf, err, al)
    ELSE IF Json2Dict(text).ok THEN Done(RetV(Json2Dict(text).v), inf, err, al)
    ELSE Done(Ret("None"), inf, err, al)

\* readline() and read_all_lines(), called by the user: a read and no write
ReadOnly(read, inf, err, al) ==
    [kind |-> "read", ret |-> Ret("running"), info |-> inf, error |-> err,
     alarm |-> al, cmd |-> "", data |-> NoneV, read |-> read, next |-> "reply"]

Readline(c, st, text, al, inf, err) ==
    IF st = "begin" THEN ReadOnly("line", inf, err, al)
    ELSE Done(Ret("text"), inf, err, al)

ReadAllLines(c, st, text, al, inf, err) ==
    IF st = "begin" THEN ReadOnly("all", inf, err, al)
    ELSE Done(Ret("text"), inf, err, al)

Handler(o, c, st, text, al, inf, err) ==
    CASE o = "connect" -> Connect(c, st, text, al, inf, err)
      [] o = "get_info" -> GetInfo(c, st, text, al, inf, err)
      [] o = "get_status" -> GetStatus(c, st, text, al, inf, err)
      [] o = "get_settings" -> GetSettings(c, st, text, al, inf, err)
      [] o = "get_streaming" -> GetStreaming(c, st, text, al, inf, err)
      [] o = "get_profile" -> GetProfile(c, st, text, al, inf, err)
      [] o = "start_heating" -> StartHeating(c, st, text, al, inf, err)
      [] o = "stop_heating" -> StopHeating(c, st, text, al, inf, err)
      [] o = "start_streaming" -> StartStreaming(c, st, text, al, inf, err)
      [] o = "stop_streaming" -> StopStreaming(c, st, text, al, inf, err)
      [] o = "do_reset" -> DoReset(c, st, text, al, inf, err)
      [] o = "set_keylock" -> SetKeylock(c, st, text, al, inf, err)
      [] o = "set_settings" -> SetSettings(c, st, text, al, inf, err)
      [] o = "set_streaming" -> SetStreaming(c, st, text, al, inf, err)
      [] o = "set_mode" -> SetMode(c, st, text, al, inf, err)
      [] o = "set_profile" -> SetProfile(c, st, text, al, inf, err)
      [] o = "readline" -> Readline(c, st, text, al, inf, err)
      [] o = "read_all_lines" -> ReadAllLines(c, st, text, al, inf, err)
      [] o = "_get" -> GetCommand(c, st, text, al, inf, err)

\* A method called while the channel is not open: write() sends nothing and
\* every read returns '' at once, so the method runs to its end.
ResolveLast(o, c, r) ==
    IF r.kind = "done" THEN r
    ELSE Handler(o, c, r.next, <<>>, r.alarm, r.info, r.error)
ResolveNext(o, c, isopen, r) ==
    IF r.kind = "done" \/ isopen THEN r
    ELSE ResolveLast(o, c, Handler(o, c, r.next, <<>>, r.alarm, r.info, r.error))
Resolve(o, c, isopen) ==
    ResolveNext(o, c, isopen, Handler(o, c, "begin", <<>>, NoneV, info, error))

(***************************************************************************)
(* The device.                                                             *)
(***************************************************************************)
\* a chunk: what one serial.readline() returns.  tag says whose bytes they
\* are: "cur" the reply to the frame written last, "old" the reply to an
\* earlier frame, "stream" a streamed record; bad: bytes that are no UTF-8
Chunk(txt, tag) == [txt |-> txt, tag |-> tag, bad |-> FALSE]
Garbled == [txt |-> <<Junk>>, tag |-> "cur", bad |-> TRUE]
Overflow == [txt |-> <<Junk>>, tag |-> "over", bad |-> FALSE]

AckLine == <<LB, Str("success"), CL, JTrue, RB, NL>>
ErrLine == <<LB, Str("error"), CL, Str("bad"), CM, Str("code"), CL, Num(3), RB, NL>>
StreamLine == <<LB, Str("temperature"), CL, Num(25), RB, NL>>
DataLine(body) ==
    <<LB, Str("success"), CL, JTrue, CM, Str("data"), CL, LB>> \o body \o <<RB, RB, NL>>
\* a successful reply that gives its fields without the data wrapper
BareLine == <<LB, Str("success"), CL, JTrue, CM, Str("serial_number"), CL, Str("VH1"),
              RB, NL>>
PrettyAck == << <<LB, NL>>, <<SP, Str("success"), CL, JTrue, NL>>, <<RB, NL>> >>
PrettyStatus(a) ==
    << <<LB, Str("success"), CL, JTrue, CM, NL>>,
       <<SP, Str("data"), CL, LB, Str("alarm"), CL, Str(a), RB, NL>>,
       <<RB, NL>> >>
\* get_streaming's reply as the firmware prints it: no commas between siblings
PrettyStreaming(m, r) ==
    << <<LB, NL>>,
       <<SP, Str("success"), CL, JTrue, NL>>,
       <<SP, Str("data"), CL, LB, NL>>,
       <<SP, SP, Str("mode"), CL, Str(m), NL>>,
       <<SP, SP, Str("rate"), CL, r, NL>>,
       <<SP, RB, RB, NL>> >>

\* how the device may answer a command
ReplyKinds(cmd) ==
    CASE cmd = "get_status" -> {"pretty", "silent", "garbled"}
      [] cmd = "get_info" -> {"ok", "silent", "bare"}
      [] cmd = "get_settings" -> {"ok", "err"}
      [] cmd = "get_streaming" -> {"pretty", "prettyint", "ok"}
      [] cmd = "get_profile" -> {"ok", "err"}
      [] cmd = "set_streaming" -> {"ok", "pretty"}
      [] OTHER -> {"ok", "err"}

\* the lines of the device's answer of kind k to the frame {cmd: payload}
ReplyLines(cmd, payload, k, d) ==
    IF k = "silent" THEN <<>>
    ELSE IF k = "err" THEN <<ErrLine>>
    ELSE IF k = "bare" THEN <<BareLine>>
    ELSE IF cmd = "get_status" THEN PrettyStatus(d.alarm)
    ELSE IF cmd = "get_info"
    THEN <<DataLine(<<Str("serial_number"), CL, Str("VH1")>>)>>
    ELSE IF cmd = "get_settings" THEN <<DataLine(<<Str("brightness"), CL, Num(5)>>)>>
    ELSE IF cmd = "get_profile" THEN <<DataLine(<<Str("name"), CL, Str("P")>>)>>
    ELSE IF cmd = "get_streaming"
    THEN IF k = "pretty" THEN PrettyStreaming(d.streaming, Str("5"))
         ELSE IF k = "prettyint" THEN PrettyStreaming(d.streaming, Num(5))
         ELSE <<DataLine(<<Str("mode"), CL, Str(d.streaming), CM,
                          Str("rate"), CL, Num(5)>>)>>
    ELSE IF k = "pretty" THEN PrettyAck
    ELSE <<AckLine>>

\* streaming mode "once": one record follows the acknowledgement
StreamsOnce(cmd, payload, k) ==
    cmd = "set_streaming" /\ k # "err" /\ Has(payload, "mode")
    /\ Get(payload, "mode") = Scalar(Str("once"))

Tagged(ls) == [i \in 1..Len(ls) |-> Chunk(ls[i], "cur")]
DeviceReply(cmd, payload, k, d) ==
    IF k = "garbled" THEN <<Garbled>>
    ELSE Tagged(ReplyLines(cmd, payload, k, d))
         \o (IF StreamsOnce(cmd, payload, k) THEN <<Chunk(StreamLine, "stream")>>
             ELSE <<>>)

\* the device after it accepted the frame
DevAfter(cmd, payload, k, d) ==
    IF cmd = "set_streaming" /\ k \in {"ok", "pretty"} /\ Has(payload, "mode")
       /\ IsScalar(Get(payload, "mode"))
    THEN [d EXCEPT !.streaming =
             IF Val(payload, "mode").s = "continuous" THEN "continuous" ELSE "off"]
    ELSE d

\* the unread chunks when a new frame is written: replies to earlier frames
Age(r) == [i \in 1..Len(r) |-> IF r[i].tag = "cur" THEN [r[i] EXCEPT !.tag = "old"]
                                ELSE r[i]]

(***************************************************************************)
(* The arguments the calls are made with.  Numbers are integers; a         *)
(* duration is in tenths of a second (1 is 0.1 s, 99990 is 9999 s).        *)
(***************************************************************************)
HeatConfigs ==
    { EmptyDict,
      MkDict(<< <<"temperature", Num(30)>> >>),
      MkDict(<< <<"mode", Str("AUTO")>>, <<"temperature", Num(30)>>,
                <<"power", Num(50)>> >>),
      MkDict(<< <<"mode", Str("shock")>>, <<"power", Num(50)>> >>),
      MkDict(<< <<"mode", Str("shock")>>, <<"duration", Num(99991)>> >>),
      MkDict(<< <<"mode", Str("profile")>>, <<"profile_number", Num(9)>>,
                <<"ignore_limit_error", JTrue>> >>),
      MkDict(<< <<"mode", Str("profile")>>, <<"profile_number", Num(10)>>,
                <<"ignore_limit_error", JTrue>> >>),
      MkDict(<< <<"mode", Str("profile")>>, <<"profile_number", Num(1)>> >>),
      MkDict(<< <<"mode", Str("turbo")>>, <<"power", Num(50)>> >>) }

StreamModes == {Scalar(Str("continuous")), Scalar(Str("once")), Scalar(Str("off"))}

StreamConfigs ==
    { EmptyDict,
      One("mode", Str("continuous")),
      MkDict(<< <<"mode", Str("off")>>, <<"rate", Num(5)>>,
                <<"temperature", JTrue>> >>) }

ResetConfigs ==
    { EmptyDict,
      One("all", JTrue),
      MkDict(<< <<"all", JTrue>>, <<"profiles", JTrue>> >>),
      MkDict(<< <<"all", JFalse>>, <<"settings", JTrue>> >>),
      One("profile_number", Num(2)) }

ProfileQueries ==
    { EmptyDict,
      One("step", Num(1)),
      One("profile_number", Num(1)),
      MkDict(<< <<"profile_number", Num(1)>>, <<"step", Num(1)>> >>) }

SettingsConfigs == {EmptyDict, One("brightness", Num(5))}
Profiles == {EmptyDict, MkDict(<< <<"profile_number", Num(1)>>, <<"name", Str("P")>> >>)}
\* names _get is called with: a command of the device, and names that are
\* none (start_streaming is a method of the class, not a command)
CommandNames == {Scalar(Str("stop_heating")), Scalar(Str("reboot")),
                 Scalar(Str("start_streaming"))}
Keylocks == {Scalar(JTrue), Scalar(JFalse)}

(***************************************************************************)
(* The state machine.                                                      *)
(***************************************************************************)
\* the object after Vaheat(), no call made
Constructed ==
    /\ serial = "none"
    /\ info = NoneV
    /\ write_raw = <<>>
    /\ error = NoneV
    /\ dev = [alarm |-> "NO_ALARM", streaming |-> "off"]
    /\ rx = <<>>
    /\ pc = "idle"
    /\ op = ""
    /\ cfg = EmptyDict
    /\ stage = ""
    /\ lines = <<>>
    /\ nreads = 0
    /\ alarm = NoneV
    /\ sent = <<>>
    /\ reads = <<>>
    /\ ret = Ret("None")

Init ==
    /\ Constructed
    /\ raw_str = <<>>
    /\ corrected = <<>>

\* lines += l, and one more serial.readline() counted
AppendSat(ls, ch) ==
    IF Len(ls) < MaxLines THEN Append(ls, ch) ELSE [ls EXCEPT ![MaxLines] = Overflow]
Bump(n) == IF n < MaxLines + 2 THEN n + 1 ELSE n

\* a faulty read_all_lines: lines returned without rstrip()
DrainTextUnstripped(ls) == Concat(ls)

\* read_all_lines' result: lines.rstrip()
DrainText(ls) == RStrip(Concat(ls))

\* one completed read of a call: the serial.readline() calls it made, the text
\* it returned, and whether it ended in the except clause
ReadRec(how, n, text, exc) == [how |-> how, n |-> n, text |-> text, exc |-> exc]

\* The method o with argument c goes on as out says: it ends, or it writes its
\* frame (the device answers) and waits in its read.
Apply(out, o, c, rxb, sentb, rdb, isopen) ==
    /\ op' = o
    /\ cfg' = c
    /\ alarm' = out.alarm
    /\ info' = out.info
    /\ error' = out.error
    /\ reads' = rdb
    /\ UNCHANGED <<raw_str, corrected>>
    /\ IF out.kind = "io"
       THEN \E fr \in {JsonStr(out.cmd, out.data)} :
            /\ isopen
            /\ fr.ok
            /\ Len(rxb) <= MaxStale
            /\ \E f \in {Json2Dict(fr.v).v} :
                 /\ \E k \in ReplyKinds(FrameCmd(f)) :
                      /\ rx' = Age(rxb) \o DeviceReply(FrameCmd(f), FramePayload(f), k, dev)
                      /\ dev' = DevAfter(FrameCmd(f), FramePayload(f), k, dev)
                 /\ sent' = Append(sentb, f)
            /\ write_raw' = fr.v
            /\ pc' = IF out.read = "all" THEN "read_all_lines" ELSE "readline"
            /\ stage' = out.next
            /\ lines' = <<>>
            /\ nreads' = 0
            /\ ret' = out.ret
       ELSE IF out.kind = "read"
       THEN /\ isopen
            /\ pc' = IF out.read = "all" THEN "read_all_lines" ELSE "readline"
            /\ stage' = out.next
            /\ lines' = <<>>
            /\ nreads' = 0
            /\ ret' = out.ret
            /\ rx' = rxb
            /\ sent' = sentb
            /\ UNCHANGED <<write_raw, dev>>
       ELSE /\ pc' = "returned"
            /\ stage' = ""
            /\ lines' = <<>>
            /\ nreads' = 0
            /\ ret' = out.ret
            /\ rx' = rxb
            /\ sent' = sentb
            /\ UNCHANGED <<write_raw, dev>>

\* a call of method o with argument c, made when no call runs (pc = "idle")
Call(o, c) ==
    /\ Apply(Resolve(o, c, serial = "open"), o, c, rx, <<>>, <<>>, serial = "open")
    /\ UNCHANGED serial

\* the caller takes the result of the call; the call's locals are gone
Return ==
    /\ pc = "returned"
    /\ pc' = "idle"
    /\ op' = ""
    /\ cfg' = EmptyDict
    /\ alarm' = NoneV
    /\ sent' = <<>>
    /\ reads' = <<>>
    /\ ret' = Ret("None")
    /\ UNCHANGED <<serial, info, write_raw, error, dev, rx, stage, lines,
                   nreads, raw_str, corrected>>

\* connect(): serial.Serial(...) opens the port, or raises SerialException
\* (caught: None is returned), or no port is found (OSError)
ConnectCall ==
    /\ pc = "idle"
    /\ \/ /\ serial' = "open"
          /\ Apply(Handler("connect", EmptyDict, "begin", <<>>, NoneV, info, error),
                   "connect", EmptyDict, rx, <<>>, <<>>, TRUE)
       \/ /\ \E r \in {"None", "OSError"} :
               Apply(Done(Ret(r), info, error, NoneV), "connect", EmptyDict, rx,
                     <<>>, <<>>, FALSE)
          /\ UNCHANGED serial

\* disconnect()
DisconnectCall ==
    /\ pc = "idle"
    /\ serial' = IF serial = "open" THEN "closed" ELSE serial
    /\ Apply(Done(Ret("None"), info, error, NoneV), "disconnect", EmptyDict, rx,
             <<>>, <<>>, FALSE)

GetInfoCall == pc = "idle" /\ Call("get_info", EmptyDict)
GetStatusCall == pc = "idle" /\ Call("get_status", EmptyDict)
GetSettingsCall == pc = "idle" /\ Call("get_settings", EmptyDict)
GetStreamingCall == pc = "idle" /\ Call("get_streaming", EmptyDict)
GetProfileCall == pc = "idle" /\ \E c \in ProfileQueries : Call("get_profile", c)
StartHeatingCall == pc = "idle" /\ \E c \in HeatConfigs : Call("start_heating", c)
StopHeatingCall == pc = "idle" /\ Call("stop_heating", EmptyDict)
StartStreamingCall == pc = "idle" /\ \E m \in StreamModes : Call("start_streaming", m)
StopStreamingCall == pc = "idle" /\ Call("stop_streaming", EmptyDict)
DoResetCall == pc = "idle" /\ \E c \in ResetConfigs : Call("do_reset", c)
SetKeylockCall == pc = "idle" /\ \E b \in Keylocks : Call("set_keylock", b)
SetSettingsCall == pc = "idle" /\ \E c \in SettingsConfigs : Call("set_settings", c)
SetStreamingCall == pc = "idle" /\ \E c \in StreamConfigs : Call("set_streaming", c)
SetModeCall == pc = "idle" /\ \E c \in HeatConfigs : Call("set_mode", c)
SetProfileCall == pc = "idle" /\ \E c \in Profiles : Call("set_profile", c)
ReadlineCall == pc = "idle" /\ Call("readline", EmptyDict)
ReadAllLinesCall == pc = "idle" /\ Call("read_all_lines", EmptyDict)
GetCommandCall == pc = "idle" /\ \E c \in CommandNames : Call("_get", c)

\* read_all_lines' loop: serial.readline() returns a chunk, lines += l
ReadChunk ==
    /\ pc = "read_all_lines"
    /\ rx # <<>>
    /\ ~Head(rx).bad
    /\ lines' = AppendSat(lines, Head(rx))
    /\ nreads' = Bump(nreads)
    /\ rx' = Tail(rx)
    /\ UNCHANGED <<serial, info, write_raw, error, dev, pc, op, cfg,
                   stage, alarm, sent, reads, ret, raw_str, corrected>>

\* read_all_lines' loop: serial.readline() returns bytes that decode() rejects;
\* the except clause returns ''
ReadGarbled ==
    /\ pc = "read_all_lines"
    /\ rx # <<>>
    /\ Head(rx).bad
    /\ Apply(Handler(op, cfg, stage, <<>>, alarm, info, error), op, cfg, Tail(rx), sent,
             Append(reads, ReadRec("all", Bump(nreads), <<>>, TRUE)), TRUE)
    /\ UNCHANGED serial

\* read_all_lines' loop: the timeout passes, serial.readline() returns b'' and
\* the loop ends: the text is returned to the method
ReadTimeout ==
    /\ pc = "read_all_lines"
    /\ rx = <<>>
    /\ Apply(Handler(op, cfg, stage, DrainText(lines), alarm, info, error), op, cfg,
             rx, sent,
             Append(reads, ReadRec("all", Bump(nreads), DrainText(lines), FALSE)), TRUE)
    /\ UNCHANGED serial

\* readline()'s result: the chunk decoded and rstripped, '' after the timeout
\* and in the except clause
LineText(r) == IF r # <<>> /\ ~Head(r).bad THEN RStrip(Head(r).txt) ELSE <<>>

\* readline(): one serial.readline(), a chunk or b'' after the timeout
ReadOneLine ==
    /\ pc = "readline"
    /\ \E text \in {LineText(rx)} :
         Apply(Handler(op, cfg, stage, text, alarm, info, error), op, cfg,
               IF rx # <<>> THEN Tail(rx) ELSE rx, sent,
               Append(reads, ReadRec("line", 1, text, rx # <<>> /\ Head(rx).bad)), TRUE)
    /\ UNCHANGED serial

\* the device streams a record while its streaming mode is continuous
DeviceStream ==
    /\ dev.streaming = "continuous"
    /\ Len(rx) < MaxRx
    /\ rx' = Append(rx, Chunk(StreamLine, "stream"))
    /\ UNCHANGED <<serial, info, write_raw, error, dev, pc, op, cfg,
                   stage, lines, nreads, alarm, sent, reads, ret,
                   raw_str, corrected>>

\* the device's alarm state changes
AlarmChange ==
    /\ dev' = [dev EXCEPT !.alarm = IF @ = "NO_ALARM" THEN "OVER_TEMP" ELSE "NO_ALARM"]
    /\ UNCHANGED <<serial, info, write_raw, error, rx, pc, op, cfg,
                   stage, lines, nreads, alarm, sent, reads, ret,
                   raw_str, corrected>>

Next ==
    \/ ConnectCall
    \/ DisconnectCall
    \/ GetInfoCall
    \/ GetStatusCall
    \/ GetSettingsCall
    \/ GetStreamingCall
    \/ GetProfileCall
    \/ StartHeatingCall
    \/ StopHeatingCall
    \/ StartStreamingCall
    \/ StopStreamingCall
    \/ DoResetCall
    \/ SetKeylockCall
    \/ SetSettingsCall
    \/ SetStreamingCall
    \/ SetModeCall
    \/ SetProfileCall
    \/ ReadlineCall
    \/ ReadAllLinesCall
    \/ GetCommandCall
    \/ ReadChunk
    \/ ReadGarbled
    \/ ReadTimeout
    \/ ReadOneLine
    \/ Return
    \/ DeviceStream
    \/ AlarmChange

Spec == Init /\ [][Next]_vars

(***************************************************************************)
(* A host that streams: the calls that set streaming and read, with the    *)
(* progress the code and the device guarantee.  A serial.readline() that   *)
(* has data or whose timeout has passed returns, a method that has its     *)
(* reply goes on, and a device set to continuous streaming keeps sending.  *)
(* Nothing obliges the user to make another call.                          *)
(***************************************************************************)
NextLive ==
    \/ ConnectCall
    \/ GetStatusCall
    \/ SetStreamingCall
    \/ ReadAllLinesCall
    \/ ReadChunk
    \/ ReadGarbled
    \/ ReadTimeout
    \/ ReadOneLine
    \/ Return
    \/ DeviceStream

\* ReadTimeout, ReadGarbled and ReadOneLine are enabled in exactly the states
\* of their first conjuncts (the channel is open while a read waits, and no
\* method writes a frame after a readline() or an except clause), and they
\* are the only steps from those states that add a read to reads.  Their weak
\* fairness is written out, []<>~ENABLED <<A>>_vars \/ []<><<A>>_vars, on
\* these predicates.
TimeoutDue == pc = "read_all_lines" /\ rx = <<>>
GarbledDue == pc = "read_all_lines" /\ rx # <<>> /\ Head(rx).bad
LineDue == pc = "readline"
ReadDone == Len(reads') = Len(reads) + 1

SpecLive ==
    /\ Init
    /\ [][NextLive]_vars
    /\ WF_vars(ReadChunk)
    /\ WF_vars(Return)
    /\ WF_vars(DeviceStream)
    /\ ([]<>~TimeoutDue \/ []<><<TimeoutDue /\ ReadDone>>_vars)
    /\ ([]<>~GarbledDue \/ []<><<GarbledDue /\ ReadDone>>_vars)
    /\ ([]<>~LineDue \/ []<><<LineDue /\ ReadDone>>_vars)

(***************************************************************************)
(* _add_commas called on its own, on the texts of replies printed one      *)
(* field or brace per line, with and without their commas, and on the      *)
(* same replies on a single line.                                          *)
(***************************************************************************)
\* a member of an object: a field with a scalar, or a nested object
Leaf(key, tok) == [key |-> key, leaf |-> TRUE, tok |-> tok, sub |-> <<>>]
Node(key, sub) == [key |-> key, leaf |-> FALSE, tok |-> JNull, sub |-> sub]

ModeLeaf == Leaf("mode", Str("off"))
RateLeaf == Leaf("rate", Num(5))
ReplyTrees ==
    { <<Leaf("success", JTrue)>>,
      <<ModeLeaf, RateLeaf>>,
      <<ModeLeaf, RateLeaf, Leaf("time", JTrue)>>,
      <<Node("data", <<ModeLeaf>>)>>,
      <<Node("data", <<ModeLeaf, RateLeaf>>)>>,
      <<Leaf("success", JTrue), Node("data", <<ModeLeaf, RateLeaf>>)>>,
      <<Node("data", <<ModeLeaf>>), Leaf("success", JTrue)>>,
      <<Node("data", <<ModeLeaf, RateLeaf>>), Leaf("success", JTrue)>> }

\* the lines of the members ms, indented by pad (unit more per level), each
\* followed by a comma when commas is set and a sibling follows
RECURSIVE MemberLines(_, _, _, _), OneMember(_, _, _, _, _)
MemberLines(ms, pad, unit, commas) ==
    IF ms = <<>> THEN <<>>
    ELSE OneMember(Head(ms), pad, unit, commas,
                   IF commas /\ Len(ms) > 1 THEN <<CM>> ELSE <<>>)
         \o MemberLines(Tail(ms), pad, unit, commas)
OneMember(m, pad, unit, commas, sep) ==
    IF m.leaf THEN << pad \o <<Str(m.key), CL, m.tok>> \o sep >>
    ELSE << pad \o <<Str(m.key), CL, LB>> >>
         \o MemberLines(m.sub, pad \o unit, unit, commas)
         \o << pad \o <<RB>> \o sep >>

\* the reply printed over several lines, with a final newline when nl is set
PrettyDoc(t, unit, commas, nl) ==
    JoinLines(<< <<LB>> >> \o MemberLines(t, unit, unit, commas) \o << <<RB>> >>)
    \o (IF nl THEN <<NL>> ELSE <<>>)
\* the reply as valid JSON on one line
CompactDoc(t) == NoSpace(PrettyDoc(t, <<>>, TRUE, FALSE))

RepairInputs ==
    {PrettyDoc(t, u, c, n) :
        t \in ReplyTrees, u \in {<<>>, <<SP>>}, c \in BOOLEAN, n \in BOOLEAN}
    \cup {CompactDoc(t) : t \in ReplyTrees}

InitRepair ==
    /\ Constructed
    /\ raw_str \in RepairInputs
    /\ corrected = <<>>

\* _add_commas(raw_str)
AddCommasCall ==
    /\ pc = "idle"
    /\ corrected' = AddCommas(raw_str)
    /\ pc' = "returned"
    /\ op' = "_add_commas"
    /\ UNCHANGED <<serial, info, write_raw, error, dev, rx, cfg, stage, lines,
                   nreads, alarm, sent, reads, ret, raw_str>>

\* _add_commas called again, on its own result
AddCommasAgain ==
    /\ pc = "returned"
    /\ op = "_add_commas"
    /\ corrected' = AddCommas(corrected)
    /\ op' = "_add_commas twice"
    /\ UNCHANGED <<serial, info, write_raw, error, dev, rx, pc, cfg, stage, lines,
                   nreads, alarm, sent, reads, ret, raw_str>>

NextRepair ==
    \/ AddCommasCall
    \/ AddCommasAgain

SpecRepair == InitRepair /\ [][NextRepair]_vars

(***************************************************************************)
(* Properties.                                                             *)
(***************************************************************************)
\* the frame of a command that has no payload
Bare(cmd) == One(cmd, JTrue)
\* the running call has written a frame of command cmd
Wrote(cmd) == \E i \in 1..Len(sent) : FrameCmd(sent[i]) = cmd
\* text parses to a reply whose data reports the alarm state NO_ALARM
ReportsNoAlarm(text) ==
    /\ Json2Dict(text).ok
    /\ Has(Json2Dict(text).v, "data")
    /\ Has(Get(Json2Dict(text).v, "data"), "alarm")
    /\ Get(Get(Json2Dict(text).v, "data"), "alarm") = Scalar(Str("NO_ALARM"))
\* start_heating was called with a non-empty config and the status it read
\* reports an alarm other than NO_ALARM
HeatingUnderAlarm ==
    /\ op = "start_heating"
    /\ Truthy(cfg)
    /\ alarm.ok
    /\ alarm.v # Scalar(Str("NO_ALARM"))

\* C1, as stated: a start_heating call with a non-empty config made while
\* the device reports an alarm other than NO_ALARM is rejected and has
\* written no frame at all to the channel.
C1_RejectedWithZeroFrames ==
    HeatingUnderAlarm => (pc = "returned" /\ ret = Ret("False") /\ Len(sent) = 0)

\* C1, amended: a start_heating call with a non-empty config whose status
\* query reports an alarm other than NO_ALARM returns False, and the one
\* frame it has written is that get_status query: no start_heating frame.
C1_RejectedAfterStatusQuery ==
    HeatingUnderAlarm =>
        (pc = "returned" /\ ret = Ret("False") /\ sent = <<Bare("get_status")>>)

\* C1's case: the device is in OVER_TEMP, start_heating read that and returned
C1_Witness ==
    /\ HeatingUnderAlarm
    /\ dev.alarm = "OVER_TEMP"
    /\ alarm = Some(Scalar(Str("OVER_TEMP")))
    /\ pc = "returned"

\* C2: a start_heating frame is written only as the second frame of a
\* start_heating call whose first frame is get_status and whose first read,
\* the drain of that query's reply, returned a text that reports alarm
\* NO_ALARM.  The frames and reads are those of the call itself, so no alarm
\* seen by an earlier call counts, and a missing, unparseable or other
\* status reply leaves the call without a start_heating frame.
C2_HeatingOnlyAfterClearStatus ==
    \A i \in 1..Len(sent) :
        FrameCmd(sent[i]) = "start_heating" =>
            /\ op = "start_heating"
            /\ i = 2
            /\ sent[1] = Bare("get_status")
            /\ Len(reads) >= 1
            /\ reads[1].how = "all"
            /\ ~reads[1].exc
            /\ ReportsNoAlarm(reads[1].text)

\* C2's case: a start_heating call wrote its frame and returned True
C2_Witness ==
    /\ op = "start_heating"
    /\ Len(sent) = 2
    /\ FrameCmd(sent[2]) = "start_heating"
    /\ pc = "returned"
    /\ ret = Ret("True")

\* C3: no frame is written while bytes of an earlier command's reply are
\* unread, so no chunk waiting in the channel and no chunk a drain has
\* collected belongs to the reply of a command older than the last one.
C3_NoStaleReplyBytes ==
    /\ \A i \in 1..Len(rx) : rx[i].tag # "old"
    /\ \A i \in 1..Len(lines) : lines[i].tag # "old"

\* C4: read_all_lines never blocks for ever: a drain that has begun ends,
\* whatever the device does, a device that keeps streaming included.
C4_DrainReturns == (pc = "read_all_lines") ~> (pc # "read_all_lines")

\* the step in which a read_all_lines call returns (one more completed read)
DrainEnds ==
    /\ pc = "read_all_lines"
    /\ Len(reads') = Len(reads) + 1
    /\ \A i \in 1..Len(lines) : lines[i].tag # "over"

\* C5, as stated: whenever read_all_lines returns on an open channel, its
\* result is the concatenation, in order, of the chunks it read, with the
\* trailing whitespace removed (for texts of at most MaxLines chunks).
C5_ReturnsAllChunksRead ==
    [][DrainEnds => reads'[Len(reads')].text = RStrip(Concat(lines))]_vars

\* C5, amended: when read_all_lines' loop ends by a zero-length read, the
\* result is the concatenation, in order, of the chunks read before it with
\* the trailing whitespace removed, and that zero-length read is the last
\* read: one read per chunk and one more, a single read for a silent
\* device, whose result is ''.  A chunk that does not decode ends the call
\* in its except clause instead, with the result '' (for texts of at most
\* MaxLines chunks).
C5_DrainConcatenatesUntilTimeout ==
    [][DrainEnds =>
          IF reads'[Len(reads')].exc
          THEN rx # <<>> /\ Head(rx).bad /\ reads'[Len(reads')].text = <<>>
          ELSE /\ rx = <<>>
               /\ reads'[Len(reads')].text = RStrip(Concat(lines))
               /\ reads'[Len(reads')].n = Len(lines) + 1
               /\ (lines = <<>> => reads'[Len(reads')].text = <<>>)]_vars

\* C5's case: a drain that read three chunks returned their text
C5_Witness ==
    \E i \in 1..Len(reads) :
        /\ reads[i].how = "all"
        /\ ~reads[i].exc
        /\ reads[i].n = 4
        /\ reads[i].text # <<>>
        /\ reads[i].text[Len(reads[i].text)] # NL

\* C6: a set_streaming frame written by start_streaming or stop_streaming
\* follows a get_streaming frame of the same call and carries the whole
\* configuration, the rate included, never the mode alone.
C6_StreamingFrameIsMerged ==
    \A i \in 1..Len(sent) :
        (op \in {"start_streaming", "stop_streaming"}
         /\ FrameCmd(sent[i]) = "set_streaming") =>
            /\ \E j \in 1..(i - 1) : FrameCmd(sent[j]) = "get_streaming"
            /\ Has(FramePayload(sent[i]), "rate")
            /\ Keys(FramePayload(sent[i])) # {"mode"}

\* C7: the do_reset frame of a call whose config has all present and true
\* carries exactly {all: true}.
C7_ResetAllCollapses ==
    \A i \in 1..Len(sent) :
        (op = "do_reset" /\ FrameCmd(sent[i]) = "do_reset"
         /\ Has(cfg, "all") /\ Get(cfg, "all") = Scalar(JTrue)) =>
            FramePayload(sent[i]) = One("all", JTrue)

\* the running call is a heating command
HeatingCommand == op \in {"start_heating", "set_mode"}
\* it has written its own frame
WroteHeatingFrame == Wrote("start_heating") \/ Wrote("set_mode")
\* the mode of a heating config that names one, compared without case
ModeOf(c) == Lower(Val(c, "mode").s)
LegalModes == {"auto", "direct", "shock", "profile"}
\* the fields that are legal for a mode
LegalFields(m) ==
    CASE m = "auto" -> {"temperature"}
      [] m = "direct" -> {"power"}
      [] m = "shock" -> {"power", "duration"}
      [] m = "profile" -> {"profile_number", "ignore_limit_error"}
      [] OTHER -> {}
\* profile_number outside 1..9 in PROFILE mode, or duration outside 0.1 s ..
\* 9999 s (1 .. 99990 tenths) in SHOCK mode
OutOfRange(c) ==
    \/ /\ ModeOf(c) = "profile" /\ Has(c, "profile_number")
       /\ (Val(c, "profile_number").n < 1 \/ Val(c, "profile_number").n > 9)
    \/ /\ ModeOf(c) = "shock" /\ Has(c, "duration")
       /\ (Val(c, "duration").n < 1 \/ Val(c, "duration").n > 99990)

\* C8: a heating command whose mode is none of AUTO, DIRECT, SHOCK, PROFILE
\* (whatever the case of its letters) is rejected: it writes no start_heating
\* and no set_mode frame to the channel.
C8_InvalidModeRejected ==
    (HeatingCommand /\ Has(cfg, "mode") /\ ModeOf(cfg) \notin LegalModes) =>
        ~WroteHeatingFrame

\* C9: a heating command whose profile_number (PROFILE mode) or duration
\* (SHOCK mode) is out of range never reaches the device: it writes no
\* start_heating and no set_mode frame to the channel.
C9_OutOfRangeRejected ==
    (HeatingCommand /\ Has(cfg, "mode") /\ OutOfRange(cfg)) => ~WroteHeatingFrame

\* C10: a heating command with a legal mode and fields in range raises no
\* error, and the payload of the frame it writes has the key mode and, with
\* the caller's values, exactly the supplied fields that are legal for the
\* mode.
C10_PayloadIsSuppliedLegalFields ==
    (HeatingCommand /\ Has(cfg, "mode") /\ ModeOf(cfg) \in LegalModes
     /\ ~OutOfRange(cfg)) =>
        /\ pc = "returned" => ret.k \in {"True", "False", "None", "value"}
        /\ \A i \in 1..Len(sent) :
              FrameCmd(sent[i]) \in {"start_heating", "set_mode"} =>
                /\ Keys(FramePayload(sent[i])) =
                      {"mode"} \cup (Keys(cfg) \cap LegalFields(ModeOf(cfg)))
                /\ \A f \in Keys(FramePayload(sent[i])) \ {"mode"} :
                      Get(FramePayload(sent[i]), f) = Get(cfg, f)

\* the reply as a person would correct it: a comma put between every value
\* and the key that follows it, nothing else changed
RECURSIVE ManuallyCorrected(_)
ManuallyCorrected(t) ==
    IF Len(t) < 2 THEN t
    ELSE IF t[2].k = "s" /\ t[1] \notin {LB, CL, CM}
    THEN <<t[1], CM>> \o ManuallyCorrected(Tail(t))
    ELSE <<t[1]>> \o ManuallyCorrected(Tail(t))
\* a reply printed over several lines, none of its commas present
MissingCommas(t) ==
    /\ Len(SplitLines(t, <<>>)) > 1
    /\ \A i \in 1..Len(t) : t[i] # CM
\* _add_commas has returned from its first call
Repaired == op = "_add_commas" /\ pc = "returned"

\* C11: for a reply printed one field or brace per line without its commas,
\* nested objects followed by siblings included, the text _add_commas returns
\* parses to the value the manually corrected reply parses to.
C11_RepairParsesAsCorrected ==
    (Repaired /\ MissingCommas(raw_str)) =>
        /\ Json2Dict(corrected).ok
        /\ Json2Dict(corrected) = Json2Dict(ManuallyCorrected(NoSpace(raw_str)))

\* C12: _add_commas is idempotent on valid JSON text: called on its own
\* result for a valid text x it returns that result again, _add_commas(x).
C12_RepairIdempotent ==
    (op = "_add_commas twice" /\ Json2Dict(raw_str).ok) =>
        corrected = AddCommas(raw_str)

\* the text after line i of the lines ls
RestAfter(ls, i) == JoinLines(SubSeq(ls, i + 1, Len(ls)))
\* only closing braces (and whitespace), at least one
OnlyClosers(t) ==
    /\ NoSpace(t) # <<>>
    /\ \A j \in 1..Len(NoSpace(t)) : NoSpace(t)[j] = RB
\* line inl came out as outl: unchanged, or without its final comma when
\* nothing but the closing of the text follows that comma
LineKept(inl, outl, rest) ==
    \/ outl = inl
    \/ /\ RStrip(inl) # <<>>
       /\ RStrip(inl)[Len(RStrip(inl))] = CM
       /\ outl = DropLastComma(inl)
       /\ OnlyClosers(rest)
\* the line needs no comma: it ends in a structural character or in a comma
EndsClosed(line) ==
    \/ EndsStructural(RStrip(line))
    \/ RStrip(line) # <<>> /\ RStrip(line)[Len(RStrip(line))] = CM

\* C13: every line of the input that already ends in a structural character
\* or in a comma comes out unchanged, but for the one comma that stands
\* right before the final closing of the text; no comma is taken out of a
\* line that ends in a structural character.
C13_ClosedLinesUnchanged ==
    Repaired =>
        \A i \in 1..Len(SplitLines(raw_str, <<>>)) :
            EndsClosed(SplitLines(raw_str, <<>>)[i]) =>
                /\ Len(SplitLines(corrected, <<>>)) = Len(SplitLines(raw_str, <<>>))
                /\ LineKept(SplitLines(raw_str, <<>>)[i],
                            SplitLines(corrected, <<>>)[i],
                            RestAfter(SplitLines(raw_str, <<>>), i))

\* the running call is a command of the device, not a bare read of the user
CommandCall == op \notin {"", "readline", "read_all_lines", "disconnect"}
\* the reply the call read last
LastReply == reads[Len(reads)].text
\* text parses to an object that carries an error key or success: false
DeviceErrorReply(text) ==
    /\ Json2Dict(text).ok
    /\ IsDict(Json2Dict(text).v)
    /\ \/ Has(Json2Dict(text).v, "error")
       \/ /\ Has(Json2Dict(text).v, "success")
          /\ Get(Json2Dict(text).v, "success") = Scalar(JFalse)

\* C14: a command whose reply carries an error key, or success: false, ends
\* as a failure (False or None, no exception) and the reply's content is what
\* self.error then holds.
C14_ErrorReplyIsDeviceError ==
    (CommandCall /\ pc = "returned" /\ reads # <<>> /\ DeviceErrorReply(LastReply)) =>
        /\ ret.k \in {"False", "None"}
        /\ error = Json2Dict(LastReply)

\* text parses to a non-empty object with neither a success nor an error key
UnmarkedReply(text) ==
    /\ Json2Dict(text).ok
    /\ IsDict(Json2Dict(text).v)
    /\ Truthy(Json2Dict(text).v)
    /\ ~Has(Json2Dict(text).v, "success")
    /\ ~Has(Json2Dict(text).v, "error")

\* C15: a command whose reply is an object with neither a success nor an
\* error marker does not end as a success: it returns neither True nor a
\* value.
C15_UnmarkedReplyIsNoSuccess ==
    (CommandCall /\ pc = "returned" /\ reads # <<>> /\ UnmarkedReply(LastReply)) =>
        ret.k \notin {"True", "value"}

\* the text the call hands to _json2dict: the drained text, repaired by
\* _add_commas in get_streaming and in get_profile with a step
ParsedText(text) ==
    IF op = "get_streaming" \/ (op = "get_profile" /\ Has(cfg, "step"))
    THEN AddCommas(text)
    ELSE text
\* the i-th reply the call read is no JSON
Unparsable(i) == ~Json2Dict(ParsedText(reads[i].text)).ok

\* C16: when a reply a command has read does not parse as JSON (the empty
\* reply of a silent device included), the call has ended with that read, it
\* reports failure (False or None; connect(), whose result says whether the
\* port is open, keeps None as the device's info) and it has written no
\* frame after the one that reply answered.
C16_UnparsableReplyEndsCall ==
    \A i \in 1..Len(reads) :
        (CommandCall /\ Unparsable(i)) =>
            /\ i = Len(reads)
            /\ pc = "returned"
            /\ Len(sent) = i
            /\ IF op = "connect" THEN info = NoneV
               ELSE ret.k \in {"False", "None"}

\* C16's cases: a silent device ends start_heating after its status query,
\* and a setter that read text that is no JSON returned False
C16_Witness ==
    /\ pc = "returned"
    /\ ret = Ret("False")
    /\ Len(reads) = 1
    /\ Len(sent) = 1
    /\ Unparsable(1)
    /\ \/ op = "start_heating" /\ reads[1].text = <<>>
       \/ op = "stop_heating" /\ reads[1].text # <<>>

\* _get runs (or ran) with a name that is no command of the device
UnknownCommand == op = "_get" /\ cfg[<<>>].s \notin API_CMD

\* C17: a command name outside the vocabulary is rejected before any I/O:
\* the call has returned None, it has written no frame and it has made no
\* read.
C17_UnknownCommandDoesNoIo ==
    UnknownCommand =>
        /\ pc = "returned"
        /\ ret = Ret("None")
        /\ sent = <<>>
        /\ reads = <<>>

\* C17's case: on an open channel, _get('reboot') has returned
C17_Witness ==
    /\ UnknownCommand
    /\ serial = "open"
    /\ cfg = Scalar(Str("reboot"))
    /\ pc = "returned"

\* the commands the methods send without a payload
BareCommands ==
    {"get_info", "get_status", "get_settings", "get_streaming", "stop_heating"}
\* the methods that send their argument as the payload of their own command
PayloadCommands ==
    {"get_profile", "set_keylock", "set_settings", "set_streaming", "set_profile"}

\* C18: every frame written is a single-key object {name: payload} with a
\* name of the vocabulary: a command sent without a payload carries true, a
\* command sent with the caller's payload carries it unchanged, the false of
\* set_keylock(False) included; the str handed to serial.write is the text of
\* the last such frame.
C18_FrameIsNameAndPayload ==
    /\ \A i \in 1..Len(sent) :
          /\ Cardinality(Keys(sent[i])) = 1
          /\ FrameCmd(sent[i]) \in API_CMD
          /\ FrameCmd(sent[i]) \in BareCommands => sent[i] = Bare(FrameCmd(sent[i]))
          /\ (op \in PayloadCommands /\ FrameCmd(sent[i]) = op) =>
                sent[i] = Put(EmptyDict, op, cfg)
    /\ sent # <<>> => Json2Dict(write_raw) = Some(sent[Len(sent)])

\* C18's case: set_keylock(False) has written {"set_keylock": false}
C18_Witness ==
    /\ op = "set_keylock"
    /\ cfg = Scalar(JFalse)
    /\ sent = <<One("set_keylock", JFalse)>>
    /\ write_raw = <<LB, Str("set_keylock"), CL, SP, JFalse, RB>>

\* the methods that return the reply's data
Getters == {"get_info", "get_status", "get_settings", "get_profile"}
\* text parses to an object that says success: true and has no error key
SuccessReply(text) ==
    /\ Json2Dict(text).ok
    /\ IsDict(Json2Dict(text).v)
    /\ Has(Json2Dict(text).v, "success")
    /\ Get(Json2Dict(text).v, "success") = Scalar(JTrue)
    /\ ~Has(Json2Dict(text).v, "error")

\* C19: a get_* call that read a successful reply returns the value of the
\* reply's data key when it has one, and the whole parsed reply when it has
\* none; it does not fail for the missing wrapper.
C19_DataOrWholeReply ==
    (op \in Getters /\ pc = "returned" /\ reads # <<>>
     /\ SuccessReply(ParsedText(LastReply))) =>
        IF Has(Json2Dict(ParsedText(LastReply)).v, "data")
        THEN ret = RetV(Get(Json2Dict(ParsedText(LastReply)).v, "data"))
        ELSE ret = RetV(Json2Dict(ParsedText(LastReply)).v)

\* the reply as the device means it: its text with the missing commas put in
Meant(text) == Json2Dict(ManuallyCorrected(NoSpace(text)))
\* the integer a rate stands for, given as a number or as a string of digits
NumericValue(tok) ==
    CASE tok.k = "n" -> tok.n
      [] tok = Str("1") -> 1
      [] tok = Str("5") -> 5
      [] OTHER -> -1
\* get_streaming has read a successful reply whose data gives a rate
StreamingReplyRead ==
    /\ op = "get_streaming"
    /\ pc = "returned"
    /\ reads # <<>>
    /\ Meant(LastReply).ok
    /\ IsDict(Meant(LastReply).v)
    /\ Has(Meant(LastReply).v, "success")
    /\ Get(Meant(LastReply).v, "success") = Scalar(JTrue)
    /\ Has(Meant(LastReply).v, "data")
    /\ Has(Get(Meant(LastReply).v, "data"), "rate")
    /\ NumericValue(Val(Get(Meant(LastReply).v, "data"), "rate")) >= 0

\* C20: for every successful get_streaming reply the rate handed to the
\* caller is an integer: the integer a numeric string stands for, and an
\* integer as it came.
C20_RateIsInteger ==
    StreamingReplyRead =>
        /\ ret.k = "value"
        /\ Has(ret.v, "rate")
        /\ Val(ret.v, "rate") =
              Num(NumericValue(Val(Get(Meant(LastReply).v, "data"), "rate")))

\* the frames of the running call: at most two, and two only in
\* start_heating and start_streaming, the status query first, its reply read
\* to the timeout, then the call's own frame
FramesOfCall ==
    /\ Len(sent) <= 2
    /\ Len(reads) <= Len(sent) \/ Len(sent) = 0
    /\ Len(sent) = 2 =>
          /\ op \in {"start_heating", "start_streaming"}
          /\ sent[1] = Bare("get_status")
          /\ FrameCmd(sent[2]) =
                (IF op = "start_heating" THEN "start_heating" ELSE "set_streaming")
          /\ Len(reads) >= 1
          /\ reads[1].how = "all"
          /\ ~reads[1].exc
\* a second frame is written by the step that ends the drain of the first
\* frame's reply, with nothing left to read
SecondFrameAfterDrain ==
    (Len(sent') = 2 /\ Len(sent) # 2) =>
        /\ Len(sent) = 1
        /\ pc = "read_all_lines"
        /\ rx = <<>>
        /\ Len(reads') = 1

\* C21: no automatic retry: a call writes each frame once and at most two
\* frames; the two-frame calls are start_heating and start_streaming, which
\* write get_status, drain its reply, and only then write their own frame.
C21_NoRetry == []FramesOfCall /\ [][SecondFrameAfterDrain]_vars

\* C21's case: start_streaming has written its two frames and returned
C21_Witness ==
    /\ op = "start_streaming"
    /\ pc = "returned"
    /\ Len(sent) = 2
    /\ sent[1] = Bare("get_status")
    /\ FrameCmd(sent[2]) = "set_streaming"
    /\ Len(reads) = 2

\* the operations of the device's API
ApiOperations ==
    {"get_info", "get_status", "get_settings", "get_streaming", "get_profile",
     "start_heating", "stop_heating", "start_streaming", "stop_streaming",
     "do_reset", "set_keylock", "set_settings", "set_streaming", "set_mode",
     "set_profile"}
\* an API operation was called with the channel absent or closed
CalledWhileClosed == serial # "open" /\ op \in ApiOperations
\* while the channel stays absent or closed, write_raw and info keep their
\* values
ClosedKeepsFields ==
    (serial # "open" /\ serial' # "open") => (write_raw' = write_raw /\ info' = info)

\* C22, as stated: with the channel absent or closed every API operation
\* has returned False or None, without raising, having written and read
\* nothing, and write_raw and info are unchanged.
C22_ClosedChannelFailsQuietly ==
    /\ [](CalledWhileClosed =>
            /\ pc = "returned"
            /\ sent = <<>>
            /\ reads = <<>>
            /\ ret.k \in {"False", "None"})
    /\ [][ClosedKeepsFields]_vars

\* C22, amended: the same, but that set_mode, which builds its payload
\* before it writes, ends in ValueError for a config without a legal mode
\* and in KeyError for a SHOCK config without duration.
C22_ClosedChannelDoesNoIo ==
    /\ [](CalledWhileClosed =>
            /\ pc = "returned"
            /\ sent = <<>>
            /\ reads = <<>>
            /\ \/ ret.k \in {"False", "None"}
               \/ /\ op = "set_mode"
                  /\ \/ /\ ret.k = "ValueError"
                        /\ (~Has(cfg, "mode") \/ ModeOf(cfg) \notin LegalModes)
                     \/ /\ ret.k = "KeyError"
                        /\ Has(cfg, "mode") /\ ModeOf(cfg) = "shock"
                        /\ ~Has(cfg, "duration"))
    /\ [][ClosedKeepsFields]_vars

\* C22's case: stop_streaming on a channel that was closed returned False
C22_Witness ==
    /\ serial = "closed"
    /\ op = "stop_streaming"
    /\ pc = "returned"
    /\ ret = Ret("False")
    /\ sent = <<>>
    /\ write_raw # <<>>

\* the frame {"set_streaming": {"mode": m}}, m a mode as a scalar
StreamingModeFrame(m) == Put(EmptyDict, "set_streaming", Put(EmptyDict, "mode", m))
\* the modes start_streaming passes on
StartableModes == {Scalar(Str("continuous")), Scalar(Str("once"))}
\* a set_streaming frame of start_streaming is the second frame of the call,
\* carries the requested mode, continuous or once, and follows a get_status
\* whose drained reply reports NO_ALARM
StartStreamingGated ==
    op = "start_streaming" =>
        \A i \in 1..Len(sent) :
            FrameCmd(sent[i]) = "set_streaming" =>
                /\ i = 2
                /\ cfg \in StartableModes
                /\ sent[2] = StreamingModeFrame(cfg)
                /\ sent[1] = Bare("get_status")
                /\ Len(reads) >= 1
                /\ reads[1].how = "all"
                /\ ~reads[1].exc
                /\ ReportsNoAlarm(reads[1].text)
\* stop_streaming on an open channel has written its one frame, mode off,
\* and nothing before it, whatever alarm the device is in
StopStreamingUngated ==
    (op = "stop_streaming" /\ serial = "open") =>
        sent = <<StreamingModeFrame(Scalar(Str("off")))>>

\* C23: start_streaming writes a set_streaming frame, with the mode once or
\* continuous it was asked for, only after the get_status exchange of the
\* same call reported NO_ALARM, and writes none for any other mode;
\* stop_streaming writes its set_streaming frame without any status query.
C23_StreamingGated == StartStreamingGated /\ StopStreamingUngated

\* C23's case: start_streaming("once") read NO_ALARM, wrote its frame and
\* the device accepted it
C23_Witness ==
    /\ op = "start_streaming"
    /\ cfg = Scalar(Str("once"))
    /\ pc = "returned"
    /\ ret = Ret("True")
    /\ sent = <<Bare("get_status"), StreamingModeFrame(cfg)>>
    /\ ReportsNoAlarm(reads[1].text)

\* the running call was given an empty config, or get_profile a config
\* without profile_number
EmptyParameterCall ==
    \/ /\ op \in {"start_heating", "set_settings", "set_streaming", "set_profile",
                  "do_reset"}
       /\ cfg = EmptyDict
    \/ /\ op = "get_profile"
       /\ ~Has(cfg, "profile_number")
\* the step that makes such a call touches neither the channel nor the device
EmptyParameterCallIsLocal ==
    (pc = "idle" /\ EmptyParameterCall') =>
        (rx' = rx /\ dev' = dev /\ write_raw' = write_raw)

\* C24: start_heating, set_settings, set_streaming, set_profile and do_reset
\* with an empty config, and get_profile without profile_number, have
\* returned False or None with no frame written and nothing read: for
\* start_heating not even the get_status query.  The call leaves the bytes
\* waiting in the channel where they are.
C24_EmptyConfigDoesNoIo ==
    /\ [](EmptyParameterCall =>
            /\ pc = "returned"
            /\ ret.k \in {"False", "None"}
            /\ sent = <<>>
            /\ reads = <<>>)
    /\ [][EmptyParameterCallIsLocal]_vars

\* C24's case: start_heating({}) on an open channel with bytes waiting
\* returned False
C24_Witness ==
    /\ op = "start_heating"
    /\ cfg = EmptyDict
    /\ serial = "open"
    /\ rx # <<>>
    /\ pc = "returned"
    /\ ret = Ret("False")
    /\ sent = <<>>

\* the methods that hand the reply to their own frame to _is_success
Classifiers ==
    {"start_heating", "stop_heating", "start_streaming", "stop_streaming", "do_reset",
     "set_keylock", "set_settings", "set_streaming", "set_mode", "set_profile"}
\* the running call has read the reply to its own frame and classified it
ClassifiedReply ==
    /\ op \in Classifiers
    /\ pc = "returned"
    /\ sent # <<>>
    /\ Len(reads) = Len(sent)
    /\ FrameCmd(sent[Len(sent)]) # "get_status"
    /\ ~reads[Len(reads)].exc
\* a step that changes self.error ends a call whose reply was classified as
\* a device error, and self.error is then that reply
ErrorSetByDeviceError ==
    error' # error =>
        /\ ClassifiedReply'
        /\ DeviceErrorReply(reads'[Len(reads')].text)
        /\ error' = Json2Dict(reads'[Len(reads')].text)
        /\ ret' = Ret("False")
\* self.error, once set, is not cleared
ErrorNeverCleared == error # NoneV => error' # NoneV
\* a call whose reply was classified as a device error leaves that reply in
\* self.error
ErrorIsLastDeviceError ==
    (ClassifiedReply /\ DeviceErrorReply(LastReply)) => error = Json2Dict(LastReply)

\* C25: self.error changes only in the step that classifies a reply as a
\* device error (an error key, or success false), and then becomes that
\* reply; every other step, a later accepted command included, leaves it as
\* it is, so it holds the last reply so classified and is never cleared.
C25_ErrorIsSticky ==
    /\ []ErrorIsLastDeviceError
    /\ [][ErrorSetByDeviceError /\ ErrorNeverCleared]_vars

\* C25's case: a device error is stored and a later command was accepted
C25_Witness ==
    /\ error # NoneV
    /\ ClassifiedReply
    /\ SuccessReply(LastReply)
    /\ ret = Ret("True")

====
